---- MODULE Spec2Model ----
(***************************************************************************)
(* Player-state synchronization layer of choreo-remix.                     *)
(*                                                                         *)
(*   src/unnamed/part_000  lib/spotify/player : useSpotifyPlayer,          *)
(*                         getSpotifyPlayer, wrapSpotifyPlayer             *)
(*   src/unnamed/part_001  earlier spotify module : tickIntervalId and     *)
(*                         createWrappedPlayer.mainCallback (the interval  *)
(*                         timer that part_000 reaches through             *)
(*                         getPlaybackListenerForTick of ../player), and   *)
(*                         useSpotifyAuth                                  *)
(*                                                                         *)
(* The Spotify SDK is the environment: connect, disconnect, seek,          *)
(* getCurrentState and the device events are its black-box capabilities.   *)
(***************************************************************************)
EXTENDS Integers, Sequences, FiniteSets, TLC

\* ------------------------------------------------------------------ bounds
MaxRuns == 2         \* runs of the useSpotifyPlayer effect
MaxEvents == 2       \* events the devices emit in one behaviour
MaxOps == 3          \* calls of seekTo / addOnTick / removeOnTick in one behaviour
MaxPos == 1          \* playback positions 0..MaxPos, seekTo arguments -MaxPos..MaxPos
MaxSubs == 2         \* length of one onTickCallbacks array
MaxHandles == MaxRuns   \* every run of the effect constructs at most one player
MaxTickEvents == 1    \* events the device emits in a session of NextTick
MaxPending == 1      \* outstanding getCurrentState() / seek() promises of one kind

\* ------------------------------------------------------------- value sets
Tokens == {"A", "B", "fake"}
NoToken == "null"
Handles == 1..MaxHandles
NoPlayer == 0
Cbs == {"f", "g"}
NoCb == "none"
Tracks == {"t1"}
Positions == 0..MaxPos
SeekArgs == (0 - MaxPos)..MaxPos

\* Spotify.PlaybackState | null
Null == [paused |-> TRUE, position |-> 0 - 1, track |-> ""]
PlaybackStates == [paused : BOOLEAN, position : Positions, track : Tracks]

LOADING == "loading"
NOT_CONNECTED == "deviceNotConnected"
INIT_ERROR == "initializationError"
AUTH_ERROR == "authError"
ACCT_ERROR == "accountError"
PLAYBACK_ERROR == "playbackError"
READY == "ready"

playerEvents ==
  << "player_state_changed", "playback_error", "initialization_error",
     "authentication_error", "account_error", "ready" >>

PlayerEventNames == {playerEvents[i] : i \in DOMAIN playerEvents}
ErrorEvents ==
  {"playback_error", "initialization_error", "authentication_error", "account_error"}

NoCache == [token |-> NoToken, promise |-> NoPlayer]

VARIABLES
  mounted,          \* the component calling useSpotifyPlayer is mounted
  token,            \* the token argument of its latest render
  runs,             \* effect runs so far
  events,           \* device events so far
  ops,              \* facade calls so far
  tokenAndPromise,  \* module variable {token, promise}; a promise is named by its handle
  windowPlayer,     \* window.spotifyPlayer
  spotifyPlayer,    \* spotifyPlayerAtom
  playerStatus,     \* playerStatusAtom
  playbackState,    \* playbackStateAtom
  scriptInjected,   \* the SDK <script> element is in the document
  sdkReadyFired,    \* the SDK has called window.onSpotifyWebPlaybackSDKReady
  onSDKReady,       \* window.onSpotifyWebPlaybackSDKReady: the promise it resolves
  hToken,           \* authToken of each handle
  hConn,            \* unused | constructing | constructed | connected | disconnected
  thenJobs,         \* .then continuations registered on a handle's promise, not yet run
  connectJobs,      \* continuations waiting for wp.connect()
  listeners,        \* synchronizer listeners per handle and event
  wrapListener,     \* stateChangeCallback of the wrapper is registered
  devState,         \* what the device's getCurrentState() returns
  syncQueries,      \* getCurrentState().then(onPlayerStateChanged) outstanding
  tickQueries,      \* getCurrentState() of tick() outstanding
  subQueries,       \* getCurrentState() of addOnTick(cb) outstanding
  seekReq,          \* last position the device was asked to seek to
  pendingSeeks,     \* player.seek(pos) promises outstanding, with their argument
  onTickCallbacks,  \* per wrapped player
  tickIntervalId,   \* module variable of the tick timer
  intervals,        \* interval timers active in the window
  calls,            \* tick callbacks invoked by the latest step, in order
  asked,            \* the latest step called player.getCurrentState()
  last,             \* the latest step
  lastTransition,   \* history: latest paused/unpaused transition delivered
  discSince,        \* history: a disconnect happened after that transition
  removedCbs,       \* history: callbacks removeOnTick returned for, not added since
  authMounted,      \* the component calling useSpotifyAuth is mounted
  authToken,        \* its state "token"
  authStatus,       \* its state "status"
  locationSearch,   \* token parameter of useLocation().search
  windowHref,       \* token parameter of window.location.href, the visible URL
  localStorage,     \* localStorage item "authToken"
  authEffect,       \* what scheduled the effect of useSpotifyAuth, "none" when it has run
  authLast,         \* the latest step of useSpotifyAuth
  urlAdopted,       \* history: the latest token adopted from the URL
  resetSince        \* history: reset() was called after that adoption

playerVars ==
  << mounted, token, runs, events, ops, tokenAndPromise, windowPlayer, spotifyPlayer, playerStatus,
     playbackState, scriptInjected, sdkReadyFired, onSDKReady, hToken, hConn, thenJobs,
     connectJobs, listeners, wrapListener, devState, syncQueries, tickQueries,
     subQueries, seekReq, pendingSeeks, onTickCallbacks, tickIntervalId, intervals,
     calls, asked, last, lastTransition, discSince, removedCbs >>

authVars ==
  << authMounted, authToken, authStatus, locationSearch, windowHref, localStorage,
     authEffect, authLast, urlAdopted, resetSince >>

vars == << playerVars, authVars >>

reactVars == << mounted, token, runs >>
countVars == << events, ops >>
atomVars == << spotifyPlayer, playerStatus, playbackState >>
sdkVars == << scriptInjected, sdkReadyFired, onSDKReady >>
handleVars == << hToken, hConn >>
jobVars == << thenJobs, connectJobs >>
queryVars == << syncQueries, tickQueries, subQueries >>
seekVars == << seekReq, pendingSeeks >>
timerVars == << tickIntervalId, intervals >>
histVars == << lastTransition, discSince >>

\* the record of a step: the operation, its handle and arguments; for a
\* player_state_changed event, the status and snapshot published before it; for
\* a click, the number of seeks outstanding before it
Step(op, h, st, ms, cb) ==
  [op |-> op, h |-> h, st |-> st, ms |-> ms, cb |-> cb,
   status |-> IF op = "player_state_changed" THEN playerStatus ELSE LOADING,
   state |-> IF op = "player_state_changed" THEN playbackState ELSE Null,
   n |-> IF op = "click" /\ h # NoPlayer THEN Len(pendingSeeks[h]) ELSE 0]

Init ==
  /\ mounted = FALSE
  /\ token = NoToken
  /\ runs = 0
  /\ events = 0
  /\ ops = 0
  /\ tokenAndPromise = NoCache
  /\ windowPlayer = NoPlayer
  /\ spotifyPlayer = NoPlayer
  /\ playerStatus = LOADING
  /\ playbackState = Null
  /\ scriptInjected = FALSE
  /\ sdkReadyFired = FALSE
  /\ onSDKReady = NoPlayer
  /\ hToken = [h \in Handles |-> NoToken]
  /\ hConn = [h \in Handles |-> "unused"]
  /\ thenJobs = [h \in Handles |-> 0]
  /\ connectJobs = [h \in Handles |-> 0]
  /\ listeners = [h \in Handles |-> [e \in PlayerEventNames |-> 0]]
  /\ wrapListener = [h \in Handles |-> FALSE]
  /\ devState = [h \in Handles |-> Null]
  /\ syncQueries = [h \in Handles |-> 0]
  /\ tickQueries = [h \in Handles |-> 0]
  /\ subQueries = [h \in Handles |-> << >>]
  /\ seekReq = [h \in Handles |-> 0 - 1]
  /\ pendingSeeks = [h \in Handles |-> << >>]
  /\ onTickCallbacks = [h \in Handles |-> << >>]
  /\ tickIntervalId = 0
  /\ intervals = {}
  /\ calls = << >>
  /\ asked = FALSE
  /\ last = [op |-> "init", h |-> NoPlayer, st |-> Null, ms |-> 0, cb |-> NoCb,
             status |-> LOADING, state |-> Null, n |-> 0]
  /\ lastTransition = "none"
  /\ discSince = FALSE
  /\ removedCbs = [h \in Handles |-> {}]
  /\ authMounted = FALSE
  /\ authToken = NoToken
  /\ authStatus = LOADING
  /\ locationSearch = NoToken
  /\ windowHref = NoToken
  /\ localStorage = NoToken
  /\ authEffect = "none"
  /\ authLast = [op |-> "init", via |-> "none", had |-> NoToken, tip |-> NoToken,
                 ls |-> NoToken]
  /\ urlAdopted = NoToken
  /\ resetSince = FALSE


\* ------------------------------------------------------- SDK black box
FreeHandles == {h \in Handles : hConn[h] = "unused"}
NewHandle == CHOOSE h \in FreeHandles : \A k \in FreeHandles : h <= k

\* Spotify.Player#disconnect: the session is closed and has no playback state
disconnect(conn, h) ==
  [k \in Handles |-> IF k = h /\ h # NoPlayer THEN "disconnected" ELSE conn[k]]

\* Spotify.Player#removeListener(event) with no callback drops every listener of
\* that event; a name that is no event of the player drops nothing
removeListener(regs, event) ==
  [e \in PlayerEventNames |-> IF e = event THEN 0 ELSE regs[e]]

\* ------------------------------------------------- useSpotifyPlayer effect
\* the two real credentials are interchangeable: the first one used is called "A"
Fresh(t) == t = "B" => \E h \in Handles : hToken[h] = "A"

\* for (const event in playerEvents): the keys of the array, "0" .. "5"
ForInKeys(arr) == {ToString(i - 1) : i \in DOMAIN arr}

RECURSIVE removeAll(_, _)
removeAll(regs, names) ==
  IF names = {} THEN regs
  ELSE LET e == CHOOSE x \in names : TRUE
       IN removeAll(removeListener(regs, e), names \ {e})

\* the cleanup returned by the effect
CleanupEvents == ForInKeys(playerEvents)

listenersAfterCleanup ==
  IF windowPlayer = NoPlayer THEN listeners
  ELSE [listeners EXCEPT ![windowPlayer] = removeAll(@, CleanupEvents)]

wrapListenerAfterCleanup ==
  IF windowPlayer # NoPlayer /\ "player_state_changed" \in CleanupEvents
  THEN [wrapListener EXCEPT ![windowPlayer] = FALSE]
  ELSE wrapListener

\* window.spotifyPlayer && window.spotifyPlayer.authToken === token
UseWindowPlayer(t) == windowPlayer # NoPlayer /\ hToken[windowPlayer] = t

\* !tokenAndPromise || token !== tokenAndPromise.token || !tokenAndPromise.promise
NeedsNewPlayerAlways(t) == TRUE
NeedsNewPlayer(t) ==
  \/ tokenAndPromise = NoCache
  \/ t # tokenAndPromise.token
  \/ tokenAndPromise.promise = NoPlayer

\* the body of the effect for a non-null token; wl is the wrapper-listener map
\* it starts from
EffectBody(t, wl) ==
  IF UseWindowPlayer(t) THEN
    /\ tokenAndPromise' = [token |-> t, promise |-> windowPlayer]
    /\ thenJobs' = [thenJobs EXCEPT ![windowPlayer] = @ + 1]
    /\ wrapListener' = wl
    /\ UNCHANGED << hToken, hConn, devState, scriptInjected, onSDKReady, discSince >>
  ELSE IF NeedsNewPlayer(t) THEN
    /\ FreeHandles # {}
    /\ LET h == NewHandle IN
       /\ hConn' = [disconnect(hConn, windowPlayer) EXCEPT
                      ![h] = IF t = "fake" THEN "constructed" ELSE "constructing"]
       /\ devState' = [k \in Handles |-> IF k = windowPlayer THEN Null ELSE devState[k]]
       /\ discSince' = (discSince \/ windowPlayer # NoPlayer)
       /\ hToken' = [hToken EXCEPT ![h] = t]
       /\ wrapListener' = [wl EXCEPT ![h] = (t = "fake")]
       /\ scriptInjected' = (scriptInjected \/ t # "fake")
       /\ onSDKReady' = IF t = "fake" THEN onSDKReady ELSE h
       /\ tokenAndPromise' = [token |-> t, promise |-> h]
       /\ thenJobs' = [thenJobs EXCEPT ![h] = @ + 1]
  ELSE
    /\ thenJobs' = [thenJobs EXCEPT ![tokenAndPromise.promise] = @ + 1]
    /\ wrapListener' = wl
    /\ UNCHANGED << tokenAndPromise, hToken, hConn, devState, scriptInjected,
                    onSDKReady, discSince >>

\* the branch a run of the effect takes
Branch(t) ==
  IF t = NoToken THEN "noToken"
  ELSE IF UseWindowPlayer(t) THEN "reuseWindow"
  ELSE IF NeedsNewPlayer(t) THEN "construct"
  ELSE "reuseCached"

useEffect(t, wl) ==
  IF t = NoToken
  THEN /\ wrapListener' = wl
       /\ UNCHANGED << tokenAndPromise, thenJobs, hToken, hConn, devState,
                       scriptInjected, onSDKReady, discSince >>
  ELSE EffectBody(t, wl)

effectFrame ==
  /\ UNCHANGED << countVars, windowPlayer, atomVars, sdkReadyFired, connectJobs, queryVars,
                  seekVars, onTickCallbacks, timerVars, lastTransition >>
  /\ calls' = << >>
  /\ asked' = FALSE

Mount(t) ==
  /\ ~mounted
  /\ Fresh(t)
  /\ runs < MaxRuns
  /\ mounted' = TRUE
  /\ token' = t
  /\ runs' = runs + 1
  /\ useEffect(t, wrapListener)
  /\ UNCHANGED listeners
  /\ UNCHANGED << authVars, removedCbs >>
  /\ last' = Step(Branch(t), tokenAndPromise'.promise, Null, 0, NoCb)
  /\ effectFrame

\* the token changes while mounted: cleanup of the previous run, then the effect
SetToken(t) ==
  /\ mounted
  /\ Fresh(t)
  /\ t # token
  /\ runs < MaxRuns
  /\ token' = t
  /\ runs' = runs + 1
  /\ listeners' = IF token = NoToken THEN listeners ELSE listenersAfterCleanup
  /\ useEffect(t, IF token = NoToken THEN wrapListener ELSE wrapListenerAfterCleanup)
  /\ UNCHANGED << authVars, removedCbs >>
  /\ last' = Step(Branch(t), tokenAndPromise'.promise, Null, 0, NoCb)
  /\ UNCHANGED mounted
  /\ effectFrame

Unmount ==
  /\ mounted
  /\ mounted' = FALSE
  /\ listeners' = IF token = NoToken THEN listeners ELSE listenersAfterCleanup
  /\ wrapListener' = IF token = NoToken THEN wrapListener ELSE wrapListenerAfterCleanup
  /\ UNCHANGED << authVars, removedCbs >>
  /\ last' = Step("unmount", windowPlayer, Null, 0, NoCb)
  /\ calls' = << >>
  /\ asked' = FALSE
  /\ UNCHANGED << token, runs, countVars, tokenAndPromise, windowPlayer, atomVars,
                  sdkVars, handleVars, jobVars, devState, queryVars, seekVars, onTickCallbacks,
                  timerVars, histVars >>


\* --------------------------------------------------------- getSpotifyPlayer
\* the SDK script has loaded and calls window.onSpotifyWebPlaybackSDKReady once
SDKReady ==
  /\ scriptInjected
  /\ ~sdkReadyFired
  /\ sdkReadyFired' = TRUE
  /\ IF onSDKReady = NoPlayer
     THEN UNCHANGED << hConn, wrapListener >>
     ELSE /\ hConn' = [hConn EXCEPT ![onSDKReady] = "constructed"]
          /\ wrapListener' = [wrapListener EXCEPT ![onSDKReady] = TRUE]
  /\ UNCHANGED << authVars, removedCbs >>
  /\ last' = Step("sdkReady", onSDKReady, Null, 0, NoCb)
  /\ calls' = << >>
  /\ asked' = FALSE
  /\ UNCHANGED << reactVars, countVars, tokenAndPromise, windowPlayer, atomVars, scriptInjected,
                  onSDKReady, hToken, jobVars, listeners, devState, queryVars, seekVars,
                  onTickCallbacks, timerVars, histVars >>

\* ------------------------------------------ the promise continuation
\* tokenAndPromise.promise?.then(async (wp) => { await wp.connect() ...
PromiseThen(h) ==
  /\ thenJobs[h] > 0
  /\ hConn[h] \notin {"unused", "constructing"}
  /\ thenJobs' = [thenJobs EXCEPT ![h] = @ - 1]
  /\ connectJobs' = [connectJobs EXCEPT ![h] = @ + 1]
  /\ UNCHANGED << authVars, removedCbs >>
  /\ last' = Step("connect", h, Null, 0, NoCb)
  /\ calls' = << >>
  /\ asked' = FALSE
  /\ UNCHANGED << reactVars, countVars, tokenAndPromise, windowPlayer, atomVars, sdkVars,
                  handleVars, listeners, wrapListener, devState, queryVars, seekVars,
                  onTickCallbacks, timerVars, histVars >>

addListeners(regs) == [e \in PlayerEventNames |-> regs[e] + 1]

windowAfterConnectAlways(h, ok) == h
\* if (!(await wp.connect())) { ...; return; }  window.spotifyPlayer = wp
windowAfterConnect(h, ok) == IF ok THEN h ELSE windowPlayer

\* wp.connect() has resolved to ok
ConnectResolved(h, ok) ==
  /\ connectJobs[h] > 0
  /\ connectJobs' = [connectJobs EXCEPT ![h] = @ - 1]
  /\ windowPlayer' = windowAfterConnect(h, ok)
  /\ IF ok
     THEN /\ hConn' = [hConn EXCEPT ![h] = "connected"]
          /\ syncQueries' = [syncQueries EXCEPT ![h] = @ + 1]
          /\ listeners' = [listeners EXCEPT ![h] = addListeners(@)]
          /\ UNCHANGED playerStatus
     ELSE /\ playerStatus' = INIT_ERROR
          /\ UNCHANGED << hConn, syncQueries, listeners >>
  /\ UNCHANGED << authVars, removedCbs >>
  /\ last' = Step(IF ok THEN "connected" ELSE "connectFailed", h, Null, 0, NoCb)
  /\ calls' = << >>
  /\ asked' = ok
  /\ UNCHANGED << reactVars, countVars, tokenAndPromise, spotifyPlayer, playbackState, sdkVars,
                  hToken, thenJobs, wrapListener, devState, tickQueries, subQueries,
                  seekVars, onTickCallbacks, timerVars, histVars >>

\* ------------------------------------------------- synchronizer listeners
onPlayerStateChangedSticky(state) ==
  /\ playbackState' = state
  /\ spotifyPlayer' = IF state # Null THEN windowPlayer ELSE spotifyPlayer
  /\ playerStatus' =
       IF playerStatus \in {INIT_ERROR, AUTH_ERROR, ACCT_ERROR, PLAYBACK_ERROR}
       THEN playerStatus
       ELSE IF state # Null THEN READY ELSE NOT_CONNECTED

onPlayerStateChangedSwapped(state) ==
  /\ playbackState' = state
  /\ spotifyPlayer' = IF state # Null THEN windowPlayer ELSE spotifyPlayer
  /\ playerStatus' = IF state # Null THEN NOT_CONNECTED ELSE READY

onPlayerStateChangedKeep(state) ==
  /\ playbackState' = IF state # Null THEN state ELSE playbackState
  /\ spotifyPlayer' = IF state # Null THEN windowPlayer ELSE spotifyPlayer
  /\ playerStatus' = IF state # Null THEN READY ELSE NOT_CONNECTED

onPlayerStateChanged(state) ==
  /\ playbackState' = state
  /\ spotifyPlayer' = IF state # Null THEN windowPlayer ELSE spotifyPlayer
  /\ playerStatus' = IF state # Null THEN READY ELSE NOT_CONNECTED

\* wp.getCurrentState().then(onPlayerStateChanged)
CurrentStateForSync(h) ==
  /\ syncQueries[h] > 0
  /\ syncQueries' = [syncQueries EXCEPT ![h] = @ - 1]
  /\ onPlayerStateChanged(devState[h])
  /\ UNCHANGED << authVars, removedCbs >>
  /\ last' = Step("currentState", h, devState[h], 0, NoCb)
  /\ calls' = << >>
  /\ asked' = FALSE
  /\ UNCHANGED << reactVars, countVars, tokenAndPromise, windowPlayer, sdkVars, handleVars, jobVars,
                  listeners, wrapListener, devState, tickQueries, subQueries, seekVars,
                  onTickCallbacks, timerVars, histVars >>

StatusOfEventInit(e) == IF e = "ready" THEN NOT_CONNECTED ELSE INIT_ERROR
\* the status each listener of part_000:117-132 sets
StatusOfEvent(e) ==
  CASE e = "playback_error" -> PLAYBACK_ERROR
    [] e = "initialization_error" -> INIT_ERROR
    [] e = "authentication_error" -> AUTH_ERROR
    [] e = "account_error" -> ACCT_ERROR
    [] e = "ready" -> NOT_CONNECTED

\* the device emits one of the error events or "ready"
DeviceEvent(h, e) ==
  /\ hConn[h] = "connected"
  /\ events < MaxEvents
  /\ events' = events + 1
  /\ playerStatus' = IF listeners[h][e] > 0 THEN StatusOfEvent(e) ELSE playerStatus
  /\ UNCHANGED << authVars, removedCbs >>
  /\ last' = Step(e, h, Null, 0, NoCb)
  /\ calls' = << >>
  /\ asked' = FALSE
  /\ UNCHANGED << reactVars, ops, tokenAndPromise, windowPlayer, spotifyPlayer, playbackState,
                  sdkVars, handleVars, jobVars, listeners, wrapListener, devState,
                  queryVars, seekVars, onTickCallbacks, timerVars, histVars >>

\* ------------------------------------------------------------ tick timer
TimerIds == {iv.id : iv \in intervals}
FreshTimerId ==
  CHOOSE i \in 1..(Cardinality(intervals) + 1) : i \notin TimerIds

\* window.setInterval(tick, 100) for the wrapper of h / window.clearInterval(id)
setInterval(h) == intervals \cup {[id |-> FreshTimerId, h |-> h]}
clearInterval(id) == {iv \in intervals : iv.id # id}

mainCallbackNoGuard(h, paused) ==
  IF ~paused
  THEN [id |-> FreshTimerId, ivs |-> setInterval(h)]
  ELSE IF tickIntervalId # 0
       THEN [id |-> 0, ivs |-> clearInterval(tickIntervalId)]
       ELSE [id |-> tickIntervalId, ivs |-> intervals]

\* the timer part of mainCallback: the new tickIntervalId and the window's timers
mainCallback(h, paused) ==
  IF ~paused
  THEN IF tickIntervalId = 0
       THEN [id |-> FreshTimerId, ivs |-> setInterval(h)]
       ELSE [id |-> tickIntervalId, ivs |-> intervals]
  ELSE IF tickIntervalId # 0
       THEN [id |-> 0, ivs |-> clearInterval(tickIntervalId)]
       ELSE [id |-> tickIntervalId, ivs |-> intervals]

\* wrapSpotifyPlayer.stateChangeCallback
stateChangeCallback(h, state) ==
  IF state = Null
  THEN UNCHANGED << timerVars, histVars >>
  ELSE /\ tickIntervalId' = mainCallback(h, state.paused).id
       /\ intervals' = mainCallback(h, state.paused).ivs
       /\ lastTransition' = IF state.paused THEN "paused" ELSE "unpaused"
       /\ discSince' = FALSE

\* the device emits player_state_changed with payload state
DeviceStateChanged(h, state) ==
  /\ hConn[h] = "connected"
  /\ events < MaxEvents
  /\ events' = events + 1
  /\ devState' = [devState EXCEPT ![h] = state]
  /\ IF wrapListener[h]
     THEN stateChangeCallback(h, state)
     ELSE UNCHANGED << timerVars, histVars >>
  /\ IF listeners[h]["player_state_changed"] > 0
     THEN onPlayerStateChanged(state)
     ELSE UNCHANGED atomVars
  /\ UNCHANGED << authVars, removedCbs >>
  /\ last' = Step("player_state_changed", h, state, 0, NoCb)
  /\ calls' = << >>
  /\ asked' = FALSE
  /\ UNCHANGED << reactVars, ops, tokenAndPromise, windowPlayer, sdkVars, handleVars, jobVars,
                  listeners, wrapListener, queryVars, seekVars, onTickCallbacks >>


\* ------------------------------------------------------ wrapSpotifyPlayer
\* for (const cb of onTickCallbacks) cb(timeMs)
Fanout(h, timeMs) ==
  [i \in 1..Len(onTickCallbacks[h]) |-> [cb |-> onTickCallbacks[h][i], ms |-> timeMs]]

tickRequery(h, given, ms) ==
  /\ tickQueries[h] < MaxPending
  /\ tickQueries' = [tickQueries EXCEPT ![h] = @ + 1]
  /\ calls' = << >>
  /\ asked' = TRUE

\* tick(ms?): with ms the callbacks run at once, without it the device is asked
tick(h, given, ms) ==
  IF given
  THEN /\ calls' = Fanout(h, ms)
       /\ asked' = FALSE
       /\ UNCHANGED tickQueries
  ELSE /\ tickQueries[h] < MaxPending
       /\ tickQueries' = [tickQueries EXCEPT ![h] = @ + 1]
       /\ calls' = << >>
       /\ asked' = TRUE

\* one period of the interval timer elapses
TimerFire(h) ==
  /\ \E iv \in intervals : iv.h = h
  /\ tick(h, FALSE, 0)
  /\ UNCHANGED << authVars, removedCbs >>
  /\ last' = Step("timer", h, Null, 0, NoCb)
  /\ UNCHANGED << reactVars, countVars, tokenAndPromise, windowPlayer, atomVars, sdkVars,
                  handleVars, jobVars, listeners, wrapListener, devState, syncQueries,
                  subQueries, seekVars, onTickCallbacks, timerVars, histVars >>

\* (await player.getCurrentState())?.position inside tick()
CurrentStateForTick(h) ==
  /\ tickQueries[h] > 0
  /\ tickQueries' = [tickQueries EXCEPT ![h] = @ - 1]
  /\ calls' = IF devState[h] # Null THEN Fanout(h, devState[h].position) ELSE << >>
  /\ asked' = FALSE
  /\ UNCHANGED << authVars, removedCbs >>
  /\ last' = Step("tick", h, devState[h], 0, NoCb)
  /\ UNCHANGED << reactVars, countVars, tokenAndPromise, windowPlayer, atomVars, sdkVars,
                  handleVars, jobVars, listeners, wrapListener, devState, syncQueries,
                  subQueries, seekVars, onTickCallbacks, timerVars, histVars >>

\* the application holds the player published in spotifyPlayerAtom
Published(h) == h # NoPlayer /\ h = spotifyPlayer

posTimeMsRaw(timeMs) == timeMs
\* const posTimeMs = timeMs < 0 ? 0 : timeMs
posTimeMs(timeMs) == IF timeMs < 0 THEN 0 ELSE timeMs

\* seekTo(timeMs): player.seek(posTimeMs) is called, its promise is outstanding
seekTo(h, timeMs) ==
  /\ Published(h)
  /\ ops < MaxOps
  /\ ops' = ops + 1
  /\ Len(pendingSeeks[h]) < MaxPending
  /\ seekReq' = [seekReq EXCEPT ![h] = posTimeMs(timeMs)]
  /\ pendingSeeks' =
       [pendingSeeks EXCEPT ![h] = Append(@, [arg |-> timeMs, pos |-> posTimeMs(timeMs)])]
  /\ calls' = << >>
  /\ asked' = FALSE
  /\ UNCHANGED << reactVars, events, tokenAndPromise, windowPlayer, atomVars, sdkVars,
                  handleVars, jobVars, listeners, wrapListener, devState, queryVars,
                  onTickCallbacks, timerVars, histVars >>

\* a caller of the facade seeks
SeekTo(h, timeMs) ==
  /\ seekTo(h, timeMs)
  /\ UNCHANGED << authVars, removedCbs >>
  /\ last' = Step("seekTo", h, Null, timeMs, NoCb)

\* --------------------------------------------------------------- Entry
\* the entries of the annotation table, each with the time it was taken at
entries == [i \in 1..(MaxPos + 1) |-> [timeMs |-> MaxPos + 1 - i]]

timestampClickFirst(h, index) == seekTo(h, entries[1].timeMs)
\* the click handler of an entry's timestamp button
timestampClick(h, index) == seekTo(h, entries[index].timeMs)

\* the user clicks the timestamp button of <Entry index={index} />
ClickTimestamp(index) ==
  /\ timestampClick(spotifyPlayer, index)
  /\ UNCHANGED << authVars, removedCbs >>
  /\ last' = Step("click", spotifyPlayer, Null, index, NoCb)

\* player.seek(posTimeMs) has resolved: .then(() => tick(posTimeMs))
SeekResolved(h) ==
  /\ pendingSeeks[h] # << >>
  /\ pendingSeeks' = [pendingSeeks EXCEPT ![h] = Tail(@)]
  /\ tick(h, TRUE, Head(pendingSeeks[h]).pos)
  /\ UNCHANGED << authVars, removedCbs >>
  /\ last' = Step("seekTick", h, Null, Head(pendingSeeks[h]).arg, NoCb)
  /\ UNCHANGED << reactVars, countVars, tokenAndPromise, windowPlayer, atomVars, sdkVars,
                  handleVars, jobVars, listeners, wrapListener, devState, syncQueries,
                  subQueries, seekReq, onTickCallbacks, timerVars, histVars >>

\* addOnTick(cb): the current state is asked for cb alone, cb is pushed
AddOnTick(h, cb) ==
  /\ Published(h)
  /\ ops < MaxOps
  /\ ops' = ops + 1
  /\ Len(onTickCallbacks[h]) < MaxSubs
  /\ Len(subQueries[h]) < MaxPending
  /\ subQueries' = [subQueries EXCEPT ![h] = Append(@, cb)]
  /\ onTickCallbacks' = [onTickCallbacks EXCEPT ![h] = Append(@, cb)]
  /\ UNCHANGED authVars
  /\ removedCbs' = [removedCbs EXCEPT ![h] = @ \ {cb}]
  /\ last' = Step("addOnTick", h, Null, 0, cb)
  /\ calls' = << >>
  /\ asked' = TRUE
  /\ UNCHANGED << reactVars, events, tokenAndPromise, windowPlayer, atomVars, sdkVars,
                  handleVars, jobVars, listeners, wrapListener, devState, syncQueries,
                  tickQueries, seekVars, timerVars, histVars >>

firstTickAlways(state, cb) == << [cb |-> cb, ms |-> state.position] >>
\* (state) => state && cb(state.position): the calls it makes
firstTick(state, cb) ==
  IF state # Null THEN << [cb |-> cb, ms |-> state.position] >> ELSE << >>

\* the getCurrentState() promise of addOnTick has resolved
CurrentStateForSub(h) ==
  /\ subQueries[h] # << >>
  /\ subQueries' = [subQueries EXCEPT ![h] = Tail(@)]
  /\ calls' = firstTick(devState[h], Head(subQueries[h]))
  /\ asked' = FALSE
  /\ UNCHANGED << authVars, removedCbs >>
  /\ last' = Step("subTick", h, devState[h], 0, Head(subQueries[h]))
  /\ UNCHANGED << reactVars, countVars, tokenAndPromise, windowPlayer, atomVars, sdkVars,
                  handleVars, jobVars, listeners, wrapListener, devState, syncQueries,
                  tickQueries, seekVars, onTickCallbacks, timerVars, histVars >>

\* Array#findIndex, 0-based, -1 when absent
findIndex(arr, callback) ==
  IF \E i \in DOMAIN arr : arr[i] = callback
  THEN (CHOOSE i \in DOMAIN arr :
          arr[i] = callback /\ \A j \in DOMAIN arr : arr[j] = callback => i <= j) - 1
  ELSE 0 - 1

\* Array#splice(start, 1); a negative start counts from the end
splice(arr, start) ==
  LET from == IF start < 0
              THEN (IF Len(arr) + start < 0 THEN 0 ELSE Len(arr) + start)
              ELSE start
  IN [i \in 1..(IF from < Len(arr) THEN Len(arr) - 1 ELSE Len(arr)) |->
        IF i <= from THEN arr[i] ELSE arr[i + 1]]

removeOnTickNoCheck(arr, callback) ==
  IF Len(arr) = 0 THEN arr ELSE splice(arr, findIndex(arr, callback))

removeOnTick(arr, callback) ==
  IF Len(arr) = 0 THEN arr
  ELSE LET index == findIndex(arr, callback)
       IN IF index > 0 - 1 THEN splice(arr, index) ELSE arr

RemoveOnTick(h, cb) ==
  /\ Published(h)
  /\ ops < MaxOps
  /\ ops' = ops + 1
  /\ onTickCallbacks' = [onTickCallbacks EXCEPT ![h] = removeOnTick(@, cb)]
  /\ UNCHANGED authVars
  /\ removedCbs' = [removedCbs EXCEPT ![h] = @ \cup {cb}]
  /\ last' = Step("removeOnTick", h, Null, findIndex(onTickCallbacks[h], cb), cb)
  /\ calls' = << >>
  /\ asked' = FALSE
  /\ UNCHANGED << reactVars, events, tokenAndPromise, windowPlayer, atomVars, sdkVars,
                  handleVars, jobVars, listeners, wrapListener, devState, queryVars,
                  seekVars, timerVars, histVars >>

\* ----------------------------------------------------------- useSpotifyAuth
NO_AUTH == "noAuth"
GOOD == "good"

\* a token parameter of a URL: absent, empty, or a credential
UrlTokens == {NoToken, "", "A", "B"}

\* if (v) for v a string, null or undefined
Truthy(v) == v # NoToken /\ v # ""

useSpotifyAuthEffectStoredFirst(tok, st, tokenInParams, tokenFromLS, href) ==
  IF Truthy(tok)
  THEN [token |-> tok, status |-> st, ls |-> tokenFromLS, href |-> href]
  ELSE IF Truthy(tokenFromLS)
  THEN [token |-> tokenFromLS, status |-> GOOD, ls |-> tokenFromLS, href |-> href]
  ELSE IF Truthy(tokenInParams)
  THEN [token |-> tokenInParams, status |-> GOOD, ls |-> tokenInParams, href |-> NoToken]
  ELSE [token |-> tok, status |-> NO_AUTH, ls |-> tokenFromLS, href |-> href]

useSpotifyAuthEffectNoPersist(tok, st, tokenInParams, tokenFromLS, href) ==
  IF Truthy(tok)
  THEN [token |-> tok, status |-> st, ls |-> tokenFromLS, href |-> href]
  ELSE IF Truthy(tokenInParams)
  THEN [token |-> tokenInParams, status |-> GOOD, ls |-> tokenFromLS, href |-> NoToken]
  ELSE IF Truthy(tokenFromLS)
  THEN [token |-> tokenFromLS, status |-> GOOD, ls |-> tokenFromLS, href |-> href]
  ELSE [token |-> tok, status |-> NO_AUTH, ls |-> tokenFromLS, href |-> href]

\* the effect of useSpotifyAuth: the token and status it sets, the localStorage
\* item and the token parameter of the visible URL it leaves
useSpotifyAuthEffect(tok, st, tokenInParams, tokenFromLS, href) ==
  IF Truthy(tok)
  THEN [token |-> tok, status |-> st, ls |-> tokenFromLS, href |-> href]
  ELSE IF Truthy(tokenInParams)
  THEN [token |-> tokenInParams, status |-> GOOD, ls |-> tokenInParams, href |-> NoToken]
  ELSE IF Truthy(tokenFromLS)
  THEN [token |-> tokenFromLS, status |-> GOOD, ls |-> tokenFromLS, href |-> href]
  ELSE [token |-> tok, status |-> NO_AUTH, ls |-> tokenFromLS, href |-> href]

AuthStep(op) ==
  [op |-> op, via |-> authEffect, had |-> authToken, tip |-> locationSearch,
   ls |-> localStorage]

\* a fresh session: the page is loaded at a URL and the component mounts
Load(u) ==
  /\ authEffect = "none"
  /\ authMounted' = TRUE
  /\ authToken' = NoToken
  /\ authStatus' = LOADING
  /\ locationSearch' = u
  /\ windowHref' = u
  /\ authEffect' = "load"
  /\ authLast' = AuthStep("load")
  /\ UNCHANGED << localStorage, urlAdopted, resetSince >>
  /\ UNCHANGED playerVars

\* the root component is unmounted and mounted again in the same page
Remount ==
  /\ authMounted
  /\ authEffect = "none"
  /\ authToken' = NoToken
  /\ authStatus' = LOADING
  /\ authEffect' = "remount"
  /\ authLast' = AuthStep("remount")
  /\ UNCHANGED << authMounted, locationSearch, windowHref, localStorage, urlAdopted,
                  resetSince >>
  /\ UNCHANGED playerVars

\* a navigation of the router; the effect depends on [tokenInParams]
Navigate(u) ==
  /\ authMounted
  /\ authEffect = "none"
  /\ u # windowHref \/ u # locationSearch
  /\ locationSearch' = u
  /\ windowHref' = u
  /\ authEffect' = IF u # locationSearch THEN "navigate" ELSE "none"
  /\ authLast' = AuthStep("navigate")
  /\ UNCHANGED << authMounted, authToken, authStatus, localStorage, urlAdopted,
                  resetSince >>
  /\ UNCHANGED playerVars

\* one run of the effect, a resolution pass
Resolve ==
  /\ authEffect # "none"
  /\ LET r == useSpotifyAuthEffect(authToken, authStatus, locationSearch, localStorage,
                                   windowHref)
     IN /\ authToken' = r.token
        /\ authStatus' = r.status
        /\ localStorage' = r.ls
        /\ windowHref' = r.href
  /\ authEffect' = "none"
  /\ authLast' = AuthStep("resolve")
  /\ urlAdopted' = IF ~Truthy(authToken) /\ Truthy(locationSearch)
                   THEN locationSearch ELSE urlAdopted
  /\ resetSince' = IF ~Truthy(authToken) /\ Truthy(locationSearch)
                   THEN FALSE ELSE resetSince
  /\ UNCHANGED << authMounted, locationSearch >>
  /\ UNCHANGED playerVars

\* token.reset()
reset ==
  /\ authMounted
  /\ authEffect = "none"
  /\ authToken' = NoToken
  /\ authStatus' = NO_AUTH
  /\ resetSince' = TRUE
  /\ authLast' = AuthStep("reset")
  /\ UNCHANGED << authMounted, locationSearch, windowHref, localStorage, authEffect,
                  urlAdopted >>
  /\ UNCHANGED playerVars

\* -------------------------------------------------------- specification
\* every operation of the layer
Next ==
  \/ \E t \in Tokens \cup {NoToken} : Mount(t)
  \/ \E t \in Tokens \cup {NoToken} : SetToken(t)
  \/ Unmount
  \/ SDKReady
  \/ \E h \in Handles : PromiseThen(h)
  \/ \E h \in Handles, ok \in BOOLEAN : ConnectResolved(h, ok)
  \/ \E h \in Handles : CurrentStateForSync(h)
  \/ \E h \in Handles, s \in PlaybackStates \cup {Null} : DeviceStateChanged(h, s)
  \/ \E h \in Handles, e \in ErrorEvents \cup {"ready"} : DeviceEvent(h, e)
  \/ \E h \in Handles : TimerFire(h)
  \/ \E h \in Handles : CurrentStateForTick(h)
  \/ \E h \in Handles, ms \in SeekArgs : SeekTo(h, ms)
  \/ \E h \in Handles : SeekResolved(h)
  \/ \E h \in Handles, cb \in Cbs : AddOnTick(h, cb)
  \/ \E h \in Handles : CurrentStateForSub(h)
  \/ \E h \in Handles, cb \in Cbs : RemoveOnTick(h, cb)
  \/ \E i \in DOMAIN entries : ClickTimestamp(i)
  \/ \E u \in UrlTokens : Load(u)
  \/ Remount
  \/ \E u \in UrlTokens : Navigate(u)
  \/ Resolve
  \/ reset

Spec == Init /\ [][Next]_vars

\* the auth token holder alone
NextAuth ==
  \/ \E u \in UrlTokens : Load(u)
  \/ Remount
  \/ \E u \in UrlTokens : Navigate(u)
  \/ Resolve
  \/ reset

SpecAuth == Init /\ [][NextAuth]_vars

\* the connection manager and the synchronizer: mounts, credential changes,
\* promise resolution and device events, with no caller of the facade
\* one credential of the SDK, the test credential and no credential
ConnTokens == {"A", "fake", NoToken}
\* one error event stands for the four, which differ in the status they publish
ConnEvents == {"authentication_error", "ready"}
\* the position of a snapshot plays no part there
ConnStates == {s \in PlaybackStates : s.position = 0} \cup {Null}

NextConn ==
  \/ \E t \in ConnTokens : Mount(t)
  \/ \E t \in ConnTokens : SetToken(t)
  \/ Unmount
  \/ SDKReady
  \/ \E h \in Handles : PromiseThen(h)
  \/ \E h \in Handles, ok \in BOOLEAN : ConnectResolved(h, ok)
  \/ \E h \in Handles : CurrentStateForSync(h)
  \/ \E h \in Handles, s \in ConnStates : DeviceStateChanged(h, s)
  \/ \E h \in Handles, e \in ConnEvents : DeviceEvent(h, e)

SpecConn == Init /\ [][NextConn]_vars

\* the facade of one player: a session that stays with the credential "fake"
NextTick ==
  \/ Mount("fake")
  \/ \E h \in Handles : PromiseThen(h)
  \/ \E h \in Handles, ok \in BOOLEAN : ConnectResolved(h, ok)
  \/ \E h \in Handles : CurrentStateForSync(h)
  \/ \E h \in Handles, s \in PlaybackStates \cup {Null} :
       events < MaxTickEvents /\ DeviceStateChanged(h, s)
  \/ \E h \in Handles : TimerFire(h)
  \/ \E h \in Handles : CurrentStateForTick(h)
  \/ \E h \in Handles, ms \in SeekArgs : SeekTo(h, ms)
  \/ \E h \in Handles : SeekResolved(h)
  \/ \E h \in Handles, cb \in Cbs : AddOnTick(h, cb)
  \/ \E h \in Handles : CurrentStateForSub(h)
  \/ \E h \in Handles, cb \in Cbs : RemoveOnTick(h, cb)

SpecTick == Init /\ [][NextTick]_vars

\* subscribers of one player whose device goes through several playback states
NextSub ==
  \/ Mount("fake")
  \/ \E h \in Handles : PromiseThen(h)
  \/ \E h \in Handles : ConnectResolved(h, TRUE)
  \/ \E h \in Handles : CurrentStateForSync(h)
  \/ \E h \in Handles, s \in PlaybackStates \cup {Null} : DeviceStateChanged(h, s)
  \/ \E h \in Handles : TimerFire(h)
  \/ \E h \in Handles : CurrentStateForTick(h)
  \/ \E h \in Handles, cb \in Cbs : AddOnTick(h, cb)
  \/ \E h \in Handles : CurrentStateForSub(h)
  \/ \E h \in Handles, cb \in Cbs : RemoveOnTick(h, cb)

SpecSub == Init /\ [][NextSub]_vars

\* the entries table on top of one player
NextEntry ==
  \/ Mount("fake")
  \/ \E h \in Handles : PromiseThen(h)
  \/ \E h \in Handles : ConnectResolved(h, TRUE)
  \/ \E h \in Handles : CurrentStateForSync(h)
  \/ \E h \in Handles, s \in PlaybackStates \cup {Null} :
       events < MaxTickEvents /\ DeviceStateChanged(h, s)
  \/ \E i \in DOMAIN entries : ClickTimestamp(i)
  \/ \E h \in Handles : SeekResolved(h)
  \/ \E h \in Handles, cb \in Cbs : AddOnTick(h, cb)
  \/ \E h \in Handles : CurrentStateForSub(h)

SpecEntry == Init /\ [][NextEntry]_vars

\* one player whose device reports every kind of event
NextErr ==
  \/ Mount("fake")
  \/ Unmount
  \/ \E h \in Handles : PromiseThen(h)
  \/ \E h \in Handles, ok \in BOOLEAN : ConnectResolved(h, ok)
  \/ \E h \in Handles : CurrentStateForSync(h)
  \/ \E h \in Handles, s \in ConnStates : DeviceStateChanged(h, s)
  \/ \E h \in Handles, e \in ErrorEvents \cup {"ready"} : DeviceEvent(h, e)

SpecErr == Init /\ [][NextErr]_vars

\* the SDK bootstrap with two credentials of the SDK; the script, once injected,
\* loads and calls window.onSpotifyWebPlaybackSDKReady
SdkTokens == {"A", "B"}

NextSdk ==
  \/ \E t \in SdkTokens : Mount(t)
  \/ \E t \in SdkTokens : SetToken(t)
  \/ Unmount
  \/ SDKReady
  \/ \E h \in Handles : PromiseThen(h)
  \/ \E h \in Handles, ok \in BOOLEAN : ConnectResolved(h, ok)
  \/ \E h \in Handles : CurrentStateForSync(h)
  \/ \E h \in Handles, s \in ConnStates : DeviceStateChanged(h, s)

SpecSdk == Init /\ [][NextSdk]_vars /\ WF_vars(SDKReady)


\* ================================================================ claims
Used == {h \in Handles : hConn[h] # "unused"}
Connected == {h \in Handles : hConn[h] = "connected"}
Range(arr) == {arr[i] : i \in DOMAIN arr}
Count(arr, x) == Cardinality({i \in DOMAIN arr : arr[i] = x})
Others(arr, x) == SelectSeq(arr, LAMBDA y : y # x)
Heard(e) == last.h # NoPlayer /\ listeners[last.h][e] > 0

\* spotifyPausedAtom, spotifyTrackNameAtom
spotifyPaused == IF playbackState # Null THEN playbackState.paused ELSE TRUE
spotifyTrackName == IF playbackState # Null THEN playbackState.track ELSE ""

\* C1 (as claimed): a run of the effect that constructs a player for a new
\* credential leaves every player of another credential disconnected, and no two
\* players are ever connected at once.
C1_DisconnectsPrevious ==
  last.op = "construct" =>
    \A h \in Used \ {last.h} :
      hToken[h] # token => hConn[h] \in {"constructing", "disconnected"}

C1_NoTwoConnected == Cardinality(Connected) <= 1

C1_SingleConnection == C1_DisconnectsPrevious /\ C1_NoTwoConnected

\* C2 (as claimed): the tick timer is active exactly when the latest
\* paused/unpaused transition was to unpaused and no player was disconnected since.
C2_TimerIffUnpaused ==
  (intervals # {}) <=> (lastTransition = "unpaused" /\ ~discSince)

\* what the code keeps of C2: a disconnect does not touch the timer
C2_TimerIgnoresDisconnect ==
  (intervals # {}) <=> (lastTransition = "unpaused")

\* C3: at most one interval timer is active in the window, whatever the number
\* of wrapped players and of unpaused events in a row.
C3_AtMostOneTimer ==
  /\ Cardinality(intervals) <= 1
  /\ (tickIntervalId = 0) <=> (intervals = {})
  /\ \A iv \in intervals : iv.id = tickIntervalId

\* an unpaused event arrives from a second player while the first player's timer runs
C3_Witness ==
  /\ last.op = "player_state_changed"
  /\ last.st # Null
  /\ ~last.st.paused
  /\ \E iv \in intervals : iv.h # last.h

\* C4: the status starts at LOADING; a state-changed event or a current-state
\* answer with a snapshot publishes READY, one without publishes NOT_CONNECTED,
\* and the device's "ready" event publishes NOT_CONNECTED.
C4_StatusFromSnapshot ==
  /\ last.op = "init" => playerStatus = LOADING
  /\ (last.op = "player_state_changed" /\ Heard("player_state_changed")) =>
       playerStatus = IF last.st # Null THEN READY ELSE NOT_CONNECTED
  /\ last.op = "currentState" =>
       playerStatus = IF last.st # Null THEN READY ELSE NOT_CONNECTED
  /\ (last.op = "ready" /\ Heard("ready")) => playerStatus = NOT_CONNECTED

C4_Witness ==
  /\ last.op = "player_state_changed"
  /\ Heard("player_state_changed")
  /\ last.st # Null
  /\ last.status = NOT_CONNECTED
  /\ playerStatus = READY

\* C5: authentication_error publishes AUTH_ERROR, and a later state-changed event
\* with a snapshot publishes READY again.
C5_AuthErrorNotAbsorbing ==
  /\ (last.op = "authentication_error" /\ Heard("authentication_error")) =>
       playerStatus = AUTH_ERROR
  /\ (/\ last.op = "player_state_changed"
      /\ Heard("player_state_changed")
      /\ last.st # Null
      /\ last.status = AUTH_ERROR) => playerStatus = READY

\* the only player there is reported the error and then a snapshot
C5_Witness ==
  /\ last.op = "player_state_changed"
  /\ Heard("player_state_changed")
  /\ last.st # Null
  /\ last.status = AUTH_ERROR
  /\ Used = {last.h}
  /\ playerStatus = READY

\* C6 (as claimed): a state-changed event with a null payload publishes
\* NOT_CONNECTED and leaves the published snapshot as it was.
C6_NullKeepsSnapshot ==
  (last.op = "player_state_changed" /\ Heard("player_state_changed") /\ last.st = Null) =>
    /\ playerStatus = NOT_CONNECTED
    /\ playbackState = last.state

\* C6 (amended): that event publishes NOT_CONNECTED and replaces the published
\* snapshot by null, so that paused reads true and the track name reads empty.
C6_NullClearsSnapshot ==
  (last.op = "player_state_changed" /\ Heard("player_state_changed") /\ last.st = Null) =>
    /\ playerStatus = NOT_CONNECTED
    /\ playbackState = Null
    /\ spotifyPaused
    /\ spotifyTrackName = ""

\* a null payload arrives while a snapshot of a playing track is published
C6_Witness ==
  /\ last.op = "player_state_changed"
  /\ Heard("player_state_changed")
  /\ last.st = Null
  /\ last.state # Null
  /\ ~last.state.paused
  /\ playbackState = Null

\* C7: while every run of the effect has had the same credential, one player has
\* been constructed at most and it has not been disconnected.
C7_ConstructedOnce ==
  (\A h, k \in Used : hToken[h] = hToken[k]) =>
    /\ Cardinality(Used) <= 1
    /\ \A h \in Used : hConn[h] # "disconnected"

\* a remount finds the promise of its credential in flight and takes it
C7_Witness ==
  /\ last.op = "reuseCached"
  /\ runs >= 2
  /\ Cardinality(Used) = 1
  /\ \A h \in Used : hToken[h] = token /\ hConn[h] = "constructing" /\ thenJobs[h] = 2

Clamped(ms) == IF ms < 0 THEN 0 ELSE ms

C12_ResolutionOrder ==
  (authLast.op = "resolve" /\ authLast.had = NoToken) =>
    IF Truthy(authLast.tip)
    THEN /\ authToken = authLast.tip
         /\ authStatus = GOOD
         /\ localStorage = authLast.tip
         /\ windowHref = NoToken
    ELSE IF Truthy(authLast.ls)
    THEN /\ authToken = authLast.ls
         /\ authStatus = GOOD
         /\ localStorage = authLast.ls
    ELSE /\ authToken = NoToken
         /\ authStatus = NO_AUTH

\* the URL carries one credential while another is stored
C12_Witness ==
  /\ authLast.op = "resolve"
  /\ authLast.had = NoToken
  /\ authLast.tip = "B"
  /\ authLast.ls = "A"
  /\ authToken = "B"
  /\ localStorage = "B"

\* C13: once a credential was adopted from the URL, a fresh session whose URL
\* has no token resolves to that credential with status GOOD.
C13_RoundTrip ==
  /\ urlAdopted # NoToken => localStorage = urlAdopted
  /\ (/\ authLast.op = "resolve"
      /\ authLast.via = "load"
      /\ ~Truthy(authLast.tip)
      /\ urlAdopted # NoToken) =>
       /\ authToken = urlAdopted
       /\ authStatus = GOOD

C13_Witness ==
  /\ authLast.op = "resolve"
  /\ authLast.via = "load"
  /\ authLast.tip = NoToken
  /\ urlAdopted = "A"
  /\ ~resetSince
  /\ authToken = "A"
  /\ authStatus = GOOD

\* C14 (as claimed): reset() leaves no credential in memory and none in
\* localStorage, and a later resolution pass whose URL has no token ends with
\* NO_AUTH and no credential.
C14_ResetClearsEverywhere ==
  /\ authLast.op = "reset" =>
       /\ authToken = NoToken
       /\ authStatus = NO_AUTH
       /\ localStorage = NoToken
  /\ (authLast.op = "resolve" /\ resetSince /\ ~Truthy(authLast.tip)) =>
       /\ authToken = NoToken
       /\ authStatus = NO_AUTH

\* what the code keeps of C14: reset() clears the value in memory
C14_ResetClearsMemory ==
  authLast.op = "reset" => authToken = NoToken /\ authStatus = NO_AUTH

\* C15: a click on the timestamp button of an entry calls seekTo of the
\* published player once, with the timeMs stored in that entry.
C15_ClickSeeksOnce ==
  last.op = "click" =>
    /\ last.h = spotifyPlayer
    /\ last.h # NoPlayer
    /\ Len(pendingSeeks[last.h]) = last.n + 1
    /\ pendingSeeks[last.h][Len(pendingSeeks[last.h])].arg = entries[last.ms].timeMs
    /\ seekReq[last.h] = entries[last.ms].timeMs

\* the second entry was clicked
C15_Witness ==
  /\ last.op = "click"
  /\ last.ms = 2
  /\ pendingSeeks[last.h] = << [arg |-> entries[2].timeMs, pos |-> entries[2].timeMs] >>

\* C16 (as claimed): whatever the mounts, unmounts and remounts, a player has
\* at most one synchronizer listener for each of the six events, and exactly one
\* for each once the listeners were registered.
C16_OneListenerPerEvent ==
  \A h \in Handles :
    /\ \A e \in PlayerEventNames : listeners[h][e] <= 1
    /\ \A e, f \in PlayerEventNames : listeners[h][e] = listeners[h][f]

\* what the code keeps of C16: the six events have the same number of listeners
C16_SameCountPerEvent ==
  \A h \in Handles : \A e, f \in PlayerEventNames : listeners[h][e] = listeners[h][f]

\* C17 (as claimed): after the cleanup of an unmount the player of
\* window.spotifyPlayer has no synchronizer listener for any of the six events,
\* and a state-changed event that arrives while the component is unmounted
\* changes neither status nor snapshot.
C17_CleanupRemovesListeners ==
  /\ (last.op = "unmount" /\ token # NoToken /\ last.h # NoPlayer) =>
       \A e \in PlayerEventNames : listeners[last.h][e] = 0
  /\ (last.op = "player_state_changed" /\ ~mounted) =>
       /\ playerStatus = last.status
       /\ playbackState = last.state

\* C18 (as claimed): a continuation that runs for a player whose credential is
\* not the cached credential any more does nothing: it neither calls connect()
\* nor installs the player nor registers listeners.
C18_StaleResolutionIgnored ==
  last.op \in {"connect", "connected", "connectFailed"} =>
    hToken[last.h] = tokenAndPromise.token

\* C19: when connect() resolves false the status becomes INIT_ERROR and
\* window.spotifyPlayer, the published player, the snapshot, the listeners of
\* every player, the outstanding state queries and the cached token/promise pair
\* stay as they were.
C19_ConnectFailedFrame ==
  [][(last'.op = "connectFailed" /\ connectJobs' # connectJobs) =>
       /\ playerStatus' = INIT_ERROR
       /\ UNCHANGED << windowPlayer, spotifyPlayer, playbackState, listeners,
                       wrapListener, syncQueries, tokenAndPromise, hConn >>]_vars

\* connect() of a second player failed while the first player is installed
C19_Witness ==
  /\ last.op = "connectFailed"
  /\ playerStatus = INIT_ERROR
  /\ windowPlayer # NoPlayer
  /\ windowPlayer # last.h
  /\ \A e \in PlayerEventNames : listeners[last.h][e] = 0
  /\ tokenAndPromise.promise = last.h

\* C20: an error event of a player with listeners sets the status to the
\* *_ERROR value of that event and changes nothing else: not
\* window.spotifyPlayer, the published player, the snapshot, the cached
\* token/promise pair, the listeners or the tick subscribers.
C20_ErrorEventFrame ==
  [][(last'.op \in ErrorEvents /\ events' # events) =>
       /\ listeners[last'.h][last'.op] > 0 =>
            playerStatus' =
              (CASE last'.op = "playback_error" -> PLAYBACK_ERROR
                 [] last'.op = "initialization_error" -> INIT_ERROR
                 [] last'.op = "authentication_error" -> AUTH_ERROR
                 [] last'.op = "account_error" -> ACCT_ERROR)
       /\ listeners[last'.h][last'.op] = 0 => playerStatus' = playerStatus
       /\ UNCHANGED << windowPlayer, spotifyPlayer, playbackState, tokenAndPromise,
                       listeners, wrapListener, onTickCallbacks, hConn, timerVars >>]_vars

\* a playback error arrives while a playing snapshot is published
C20_Witness ==
  /\ last.op = "playback_error"
  /\ Heard("playback_error")
  /\ playerStatus = PLAYBACK_ERROR
  /\ playbackState # Null
  /\ spotifyPlayer = last.h
  /\ windowPlayer = last.h

\* C21 (as claimed): a callback for which removeOnTick has returned, and which
\* was not added again, is called by no later step: not by a seek tick, a timer
\* tick or the answer to the query its own addOnTick started.
C21_NoCallAfterRemove ==
  \A i \in DOMAIN calls : calls[i].cb \notin removedCbs[last.h]

\* what the code keeps of C21: the fan-out of a tick calls registered callbacks only
C21_FanoutOnlyRegistered ==
  last.op \in {"seekTick", "tick"} =>
    \A i \in DOMAIN calls : calls[i].cb \in Range(onTickCallbacks[last.h])

\* C22 (as claimed): every construction started by getSpotifyPlayer resolves
\* once the SDK has loaded, also one started after the SDK's ready signal and
\* also the earlier of two started before it.
C22_ConstructionResolves ==
  \A h \in Handles : (hConn[h] = "constructing") ~> (hConn[h] # "constructing")

\* what the code keeps of C22: the ready signal resolves the construction whose
\* handler is installed when it fires, and no other
C22_ReadyResolvesInstalled ==
  last.op = "sdkReady" =>
    \A h \in Handles : (hConn[h] = "constructing") <=> (h \in Used /\ h # last.h)

\* C23 (as claimed): while the component is mounted, a player published in
\* spotifyPlayerAtom carries the credential currently passed to
\* useSpotifyPlayer, and a snapshot that is published comes from an event or an
\* answer of the published player.
C23_PublishedMatchesCredential ==
  /\ (mounted /\ spotifyPlayer # NoPlayer) => hToken[spotifyPlayer] = token
  /\ (/\ last.op \in {"player_state_changed", "currentState"}
      /\ last.st # Null
      /\ playbackState = last.st
      /\ last.op = "player_state_changed" => Heard("player_state_changed")) =>
       spotifyPlayer = last.h

\* what the code keeps of C23: a snapshot is published together with the player
\* of window.spotifyPlayer, whichever player the snapshot came from
C23_PublishedIsWindowPlayer ==
  (/\ last.op \in {"player_state_changed", "currentState"}
   /\ last.st # Null
   /\ last.op = "player_state_changed" => Heard("player_state_changed")) =>
    spotifyPlayer = windowPlayer

====
